---- MODULE Spec2Model ----
(***************************************************************************)
(* Model of docs/scripts/fd.b.py: RBF-FD assembly of the 2-D static        *)
(* elasticity system (PDE rows, fixed Dirichlet rows, free-surface         *)
(* traction rows), its right-hand side and the sparse solve.               *)
(*                                                                         *)
(* A matrix row is kept symbolically: the node it was evaluated at and the *)
(* list of <<coefficient, <<dx, dy>>>> terms handed to weight_matrix.      *)
(* rbf.nodes.min_energy_nodes, rbf.fd.weight_matrix, rbf.fd.add_rows and   *)
(* the sparse solver are not part of the script; they are modelled by      *)
(* their contracts.  The run ends after the solve: strain post-processing  *)
(* and plotting (lines 163-202) read the solution and change none of this. *)
(***************************************************************************)
EXTENDS Integers, Sequences, FiniteSets, TLC

\* ------------------------------------------------------------------ bounds
\* largest node budget N handed to the node generator (ghosts come on top)
MaxBudget == 2
\* the non-zero value drawn for a Lame parameter or the body force
MaxParam == 1
\* largest node count of a layout drawn without the partition guarantee
MaxAnyNodes == 2

VARIABLES
  pc,          \* the statement the script is about to execute
  err,         \* the exception that ended the run, "" when none
  warnings,    \* warnings reported to the caller
  N,           \* node budget, then (line 48) the number of nodes
  lamb, mu,    \* Lame parameters
  body_force,  \* y component of the body force
  idx,         \* group name -> sequence of node indices
  normals,     \* node -> <<nx, ny>>
  G,           \* block name -> (row index -> row)
  log,         \* the add_rows calls made so far, in order
  d_x, d_y,    \* right-hand side components
  Gs,          \* stacked 2N x 2N operator: row -> <<left row, right row>>
  d,           \* stacked right-hand side
  u_x, u_y,    \* solved displacement components
  pert,        \* second run: what its traction computation reads instead
  Gp           \* second run: block name -> (row index -> row)

vars == <<pc, err, warnings, N, lamb, mu, body_force, idx, normals, G, log,
          d_x, d_y, Gs, d, u_x, u_y, pert, Gp>>

\* ----------------------------------------------------------------- helpers
Range(s) == {s[k] : k \in DOMAIN s}

Distinct(s) == \A j, k \in DOMAIN s : j # k => s[j] # s[k]

\* every sequence over S without repetition, of length at most m
DistinctSeqs(S, m) ==
  UNION {{s \in [1..n -> S] : Distinct(s)} : n \in 0..m}

RECURSIVE SumSeq(_)
SumSeq(s) == IF s = <<>> THEN 0 ELSE Head(s) + SumSeq(Tail(s))

Blocks == {"xx", "xy", "yx", "yy"}

Rows == 0..(N - 1)

\* np.hstack of two index arrays
hstack(a, b) == a \o b

\* ------------------------------------------------------------------- rows
\* a structurally empty row of sp.csr_matrix((N, N))
ZeroRow == [at |-> 0 - 1, terms |-> <<>>]

DiffsOf(row) == {row.terms[t][2] : t \in DOMAIN row.terms}

CoeffSum(row, dd) ==
  SumSeq([t \in DOMAIN row.terms |->
            IF row.terms[t][2] = dd THEN row.terms[t][1] ELSE 0])

\* the row has no non-zero entry: every derivative's coefficients cancel
IsZeroRow(row) == \A dd \in DiffsOf(row) : CoeffSum(row, dd) = 0

\* the row only holds order-(0,0) terms, so its entries are known exactly
IsPointRow(row) == DiffsOf(row) \subseteq {<<0, 0>>}

\* entry of a point row in column c
Entry(row, c) ==
  IF c = row.at THEN CoeffSum(row, <<0, 0>>) ELSE 0

\* rbf.fd.weight_matrix(x, nodes, diffs, coeffs): one row per evaluation
\* point x[k]; coeffs[t] is the per-point array of the t-th term
weight_matrix(x, diffs, coeffs) ==
  [k \in DOMAIN x |->
     [at |-> x[k],
      terms |-> [t \in DOMAIN diffs |-> <<coeffs[t][k], diffs[t]>>]]]

\* a scalar coefficient list broadcast over m evaluation points
Scalars(cs, m) == [t \in DOMAIN cs |-> [k \in 1..m |-> cs[t]]]

\* rbf.fd.add_rows(A, B, idx): B needs one row per element of idx
add_rows_ok(B, ix) == Len(B) = Len(ix)

LastAt(ix, r) == CHOOSE k \in DOMAIN ix :
                   ix[k] = r /\ \A j \in DOMAIN ix : ix[j] = r => j <= k

\* rbf.fd.add_rows(A, B, idx): row idx[k] of the result is row k of B
add_rows(A, B, ix) ==
  [r \in DOMAIN A |-> IF r \in Range(ix) THEN B[LastAt(ix, r)] ELSE A[r]]

\* numpy fancy assignment v[ix] = val
Assign(v, ix, val) ==
  [r \in DOMAIN v |-> IF r \in Range(ix) THEN val ELSE v[r]]

\* ------------------------------------------------------- node generation
BaseGroups == {"interior", "fixed", "free", "free_ghosts"}

\* outward unit normals a free boundary node can carry
UnitNormals == {<<1, 0>>, <<0, 0 - 1>>}

Perms(S) == {s \in [1..Cardinality(S) -> S] : Distinct(s)}

\* the elements of S in ascending order
Ascending(S) ==
  CHOOSE s \in Perms(S) : \A j, k \in DOMAIN s : j < k => s[j] < s[k]

Members(g, name) == {i \in DOMAIN g : g[i] = name}

\* rbf.nodes.min_energy_nodes with boundary_groups_with_ghosts=['free']:
\* `budget` nodes classified interior / fixed / free, one ghost node per
\* free node, every index of 0..M-1 in exactly one group.  Node labels are
\* interchangeable, so interior, fixed and free are listed in ascending
\* order; the k-th ghost belongs to the k-th free node whatever its label
ValidLayouts(budget) ==
  UNION {
    UNION {
      {[interior |-> a, fixed |-> b, free |-> c, free_ghosts |-> e] :
         a \in {Ascending(Members(g, "interior"))},
         b \in {Ascending(Members(g, "fixed"))},
         c \in {Ascending(Members(g, "free"))}, e \in Perms(Members(g, "free_ghosts"))} :
      g \in {h \in [0..(budget + f - 1) -> BaseGroups] :
               /\ Cardinality(Members(h, "free")) = f
               /\ Cardinality(Members(h, "free_ghosts")) = f} } :
    f \in 0..budget }

\* a node generator without the partition and ghost-pairing guarantees:
\* each group is any duplicate-free index array over 0..M-1 (`interior` in
\* ascending order, node labels being interchangeable)
AnyLayouts(M) ==
  {[interior |-> a, fixed |-> b, free |-> c, free_ghosts |-> e] :
     a \in {Ascending(S) : S \in SUBSET (0..(M - 1))}, b \in DistinctSeqs(0..(M - 1), M),
     c \in DistinctSeqs(0..(M - 1), M), e \in DistinctSeqs(0..(M - 1), M)}

NodeCount(lay) ==
  Cardinality(Range(lay.interior) \cup Range(lay.fixed)
              \cup Range(lay.free) \cup Range(lay.free_ghosts))

NormalFields(lay, M, U) ==
  {[i \in 0..(M - 1) |-> IF i \in Range(lay.free) THEN nf[i] ELSE <<0, 0>>] :
     nf \in [Range(lay.free) -> U]}

\* ------------------------------------------------------------ the script
\* statement order of the script
Script_freeBeforeFixed ==
  <<"generate", "derive", "zeros",
    "pde_xx", "pde_xy", "pde_yx", "pde_yy",
    "free_xx", "free_xy", "free_yx", "free_yy",
    "fix_xx", "fix_yy",
    "stack", "rhs", "solve", "done">>

Script ==
  <<"generate", "derive", "zeros",
    "pde_xx", "pde_xy", "pde_yx", "pde_yy",
    "fix_xx", "fix_yy",
    "free_xx", "free_xy", "free_yx", "free_yy",
    "stack", "rhs", "solve", "done">>

Pos(l) == CHOOSE k \in DOMAIN Script : Script[k] = l

After(l) == Script[Pos(l) + 1]

\* derived node groups
InteriorFree_swapped(ix) == hstack(ix["free"], ix["interior"])

InteriorFree(ix) == hstack(ix["interior"], ix["free"])

InteriorGhosts_stale(ix) == hstack(ix["interior"], ix["free"])

InteriorGhosts(ix) == hstack(ix["interior"], ix["free_ghosts"])

InteriorBoundary(ix) ==
  hstack(hstack(ix["interior"], ix["free"]), ix["fixed"])

\* PDE rows: evaluation group and target rows
pde_eval_ghosts == "interior+ghosts"

pde_eval == "interior+free"

pde_rows_own == "interior+free"

pde_rows == "interior+ghosts"

pde_coeffs_slip(b, l, m) ==
  CASE b = "xx" -> <<l + 2, m>>
    [] b = "xy" -> <<l, m>>
    [] b = "yx" -> <<m, l>>
    [] b = "yy" -> <<l + 2, m>>

pde_coeffs(b, l, m) ==
  CASE b = "xx" -> <<l + 2 * m, m>>
    [] b = "xy" -> <<l, m>>
    [] b = "yx" -> <<m, l>>
    [] b = "yy" -> <<l + 2 * m, m>>

pde_diffs(b) ==
  CASE b = "xx" -> << <<2, 0>>, <<0, 2>> >>
    [] b = "xy" -> << <<1, 1>>, <<1, 1>> >>
    [] b = "yx" -> << <<1, 1>>, <<1, 1>> >>
    [] b = "yy" -> << <<0, 2>>, <<2, 0>> >>

\* fixed boundary rows
fix_eval == "fixed"

fix_rows_free == "free"

fix_rows == "fixed"

fix_coeffs_scaled == <<2>>

fix_coeffs == <<1>>

fix_diffs == << <<0, 0>> >>

\* free surface rows
free_eval == "free"

free_rows_fixed == "fixed"

free_rows == "free"

\* normals[idx['free']][:, c]
NormalComp(nrm, fr, c) == [k \in DOMAIN fr |-> nrm[fr[k]][c]]

Scale(v, s) == [k \in DOMAIN v |-> v[k] * s]

free_coeffs(b, l, m, nrm, fr) ==
  CASE b = "xx" -> <<Scale(NormalComp(nrm, fr, 1), l + 2 * m),
                     Scale(NormalComp(nrm, fr, 2), m)>>
    [] b = "xy" -> <<Scale(NormalComp(nrm, fr, 1), l),
                     Scale(NormalComp(nrm, fr, 2), m)>>
    [] b = "yx" -> <<Scale(NormalComp(nrm, fr, 1), m),
                     Scale(NormalComp(nrm, fr, 2), l)>>
    [] b = "yy" -> <<Scale(NormalComp(nrm, fr, 2), l + 2 * m),
                     Scale(NormalComp(nrm, fr, 1), m)>>

free_diffs(b) ==
  CASE b = "xx" -> << <<1, 0>>, <<0, 1>> >>
    [] b = "xy" -> << <<0, 1>>, <<1, 0>> >>
    [] b = "yx" -> << <<0, 1>>, <<1, 0>> >>
    [] b = "yy" -> << <<0, 1>>, <<1, 0>> >>

\* what the second run's traction computation reads
PertLamb == lamb + pert.dl

PertMu == mu + pert.dm

PertNormals ==
  [i \in DOMAIN normals |->
     IF pert.flip THEN <<0 - normals[i][1], 0 - normals[i][2]>> ELSE normals[i]]

NoPert == [dl |-> 0, dm |-> 0, flip |-> FALSE]

Perts == [dl : {0, 1}, dm : {0, 1}, flip : BOOLEAN]

\* ------------------------------------------------------------------ init
InitWith(P, L, F) ==
  /\ pc = "generate"
  /\ err = ""
  /\ warnings = {}
  /\ N \in 1..MaxBudget
  /\ lamb \in L
  /\ mu \in L
  /\ body_force \in F
  /\ idx = <<>>
  /\ normals = <<>>
  /\ G = <<>>
  /\ Gp = <<>>
  /\ log = <<>>
  /\ d_x = <<>>
  /\ d_y = <<>>
  /\ Gs = <<>>
  /\ d = <<>>
  /\ u_x = <<>>
  /\ u_y = <<>>
  /\ pert \in P

\* each of lambda, mu and the body force is absent (0) or present (MaxParam)
Init == InitWith({NoPert}, {0, MaxParam}, {0, MaxParam})

\* the script's own parameter values, every perturbation of the second run
InitPerturb == InitWith(Perts, {1}, {1})

\* the script's own parameter values
InitAny == InitWith({NoPert}, {1}, {1})

\* ---------------------------------------------------------------- actions
\* lines 42-48: nodes, idx, normals = min_energy_nodes(...); N = nodes.shape[0]
GenerateFrom(lay, M, U) ==
  /\ pc = "generate"
  /\ \E nrm \in NormalFields(lay, M, U) :
       /\ idx' = [g \in BaseGroups |-> lay[g]]
       /\ normals' = nrm
  /\ N' = M
  /\ pc' = After("generate")
  /\ UNCHANGED <<err, warnings, lamb, mu, body_force, G, Gp, log,
                 d_x, d_y, Gs, d, u_x, u_y, pert>>

Generate ==
  /\ pc = "generate"
  /\ \E lay \in ValidLayouts(N) : GenerateFrom(lay, NodeCount(lay), UnitNormals)

GenerateAny ==
  /\ pc = "generate"
  /\ \E M \in 1..MaxAnyNodes : \E lay \in AnyLayouts(M) : GenerateFrom(lay, M, {<<1, 0>>})

\* lines 51-57: the derived node groups
Derive ==
  /\ pc = "derive"
  /\ idx' = ("interior+free" :> InteriorFree(idx))
            @@ ("interior+ghosts" :> InteriorGhosts(idx))
            @@ ("interior+boundary" :> InteriorBoundary(idx))
            @@ idx
  /\ pc' = After("derive")
  /\ UNCHANGED <<err, warnings, N, lamb, mu, body_force, normals, G, Gp, log,
                 d_x, d_y, Gs, d, u_x, u_y, pert>>

\* lines 60-63: four empty N x N blocks
Zeros ==
  /\ pc = "zeros"
  /\ G' = [b \in Blocks |-> [r \in Rows |-> ZeroRow]]
  /\ Gp' = [b \in Blocks |-> [r \in Rows |-> ZeroRow]]
  /\ pc' = After("zeros")
  /\ UNCHANGED <<err, warnings, N, lamb, mu, body_force, idx, normals, log,
                 d_x, d_y, Gs, d, u_x, u_y, pert>>

\* D = weight_matrix(...); G_b = add_rows(G_b, D, idx[rows]) for both runs;
\* a row-count mismatch raises out of add_rows and ends the script
AddStep(label, phase, b, rows, D, Dp) ==
  /\ pc = label
  /\ IF add_rows_ok(D, idx[rows])
       THEN /\ G' = [G EXCEPT ![b] = add_rows(G[b], D, idx[rows])]
            /\ Gp' = [Gp EXCEPT ![b] = add_rows(Gp[b], Dp, idx[rows])]
            /\ log' = Append(log, [blk |-> b, phase |-> phase,
                                    rows |-> idx[rows], vals |-> D])
            /\ pc' = After(label)
            /\ err' = err
       ELSE /\ pc' = "aborted"
            /\ err' = "DimensionMismatch"
            /\ UNCHANGED <<G, Gp, log>>
  /\ UNCHANGED <<warnings, N, lamb, mu, body_force, idx, normals,
                 d_x, d_y, Gs, d, u_x, u_y, pert>>

\* lines 80-90
D_pde(b) ==
  weight_matrix(idx[pde_eval], pde_diffs(b),
                Scalars(pde_coeffs(b, lamb, mu), Len(idx[pde_eval])))

PDE(label, b) == AddStep(label, "pde", b, pde_rows, D_pde(b), D_pde(b))

PDE_xx == PDE("pde_xx", "xx")

PDE_xy == PDE("pde_xy", "xy")

PDE_yx == PDE("pde_yx", "yx")

PDE_yy == PDE("pde_yy", "yy")

\* lines 98-107
dD_fix ==
  weight_matrix(idx[fix_eval], fix_diffs,
                Scalars(fix_coeffs, Len(idx[fix_eval])))

Fix(label, b) == AddStep(label, "fixed", b, fix_rows, dD_fix, dD_fix)

Fix_xx == Fix("fix_xx", "xx")

Fix_yy == Fix("fix_yy", "yy")

\* lines 111-134
dD_free(b, l, m, nrm) ==
  weight_matrix(idx[free_eval], free_diffs(b),
                free_coeffs(b, l, m, nrm, idx["free"]))

Free(label, b) ==
  AddStep(label, "free", b, free_rows,
          dD_free(b, lamb, mu, normals),
          dD_free(b, PertLamb, PertMu, PertNormals))

Free_xx == Free("free_xx", "xx")

Free_xy == Free("free_xy", "xy")

Free_yx == Free("free_yx", "yx")

Free_yy == Free("free_yy", "yy")

\* lines 137-140: G = vstack(hstack(G_xx, G_xy), hstack(G_yx, G_yy))
Stacked(B) ==
  [r \in 0..(2 * N - 1) |->
     IF r < N THEN <<B["xx"][r], B["xy"][r]>>
              ELSE <<B["yx"][r - N], B["yy"][r - N]>>]

Stack ==
  /\ pc = "stack"
  /\ Gs' = Stacked(G)
  /\ pc' = After("stack")
  /\ UNCHANGED <<err, warnings, N, lamb, mu, body_force, idx, normals, G, Gp,
                 log, d_x, d_y, d, u_x, u_y, pert>>

\* lines 143-154
rhs_rows_free == "interior+free"

rhs_rows == "interior+ghosts"

RhsX ==
  Assign(Assign(Assign([r \in Rows |-> 0], idx[rhs_rows], 0),
                idx["free"], 0), idx["fixed"], 0)

RhsY ==
  Assign(Assign(Assign([r \in Rows |-> 0], idx[rhs_rows], body_force),
                idx["free"], 0), idx["fixed"], 0)

RHS ==
  /\ pc = "rhs"
  /\ d_x' = RhsX
  /\ d_y' = RhsY
  /\ d' = [r \in 0..(2 * N - 1) |-> IF r < N THEN RhsX[r] ELSE RhsY[r - N]]
  /\ pc' = After("rhs")
  /\ UNCHANGED <<err, warnings, N, lamb, mu, body_force, idx, normals, G, Gp,
                 log, Gs, u_x, u_y, pert>>

\* global row r has no non-zero entry
GlobalZeroRow(A, r) == IsZeroRow(A[r][1]) /\ IsZeroRow(A[r][2])

\* global row r is a non-zero multiple of the r-th unit row
GlobalUnitRow(A, r) ==
  LET own == IF r < N THEN A[r][1] ELSE A[r][2]
      other == IF r < N THEN A[r][2] ELSE A[r][1]
      col == IF r < N THEN r ELSE r - N
  IN  /\ IsPointRow(own)
      /\ own.at = col
      /\ Entry(own, col) # 0
      /\ IsZeroRow(other)

\* the matrix has an all-zero row
SurelySingular(A) == \E r \in DOMAIN A : GlobalZeroRow(A, r)

\* the matrix is diagonal with a non-zero diagonal
SurelyRegular(A) == \A r \in DOMAIN A : GlobalUnitRow(A, r)

\* what the solver can find: the symbolic rows decide only the two cases above
SingularOutcomes(A) ==
  IF SurelySingular(A) THEN {TRUE}
  ELSE IF SurelyRegular(A) THEN {FALSE}
  ELSE BOOLEAN

\* solution entry r of a regular system
Solution(A, rhs, r) ==
  IF (\A q \in DOMAIN rhs : rhs[q] = 0) \/ (GlobalUnitRow(A, r) /\ rhs[r] = 0)
    THEN "zero" ELSE "value"

\* lines 157-161: u = spsolve(G, d); u_x, u_y = reshape(u, (2, -1))
Solve ==
  /\ pc = "solve"
  /\ \E singular \in SingularOutcomes(Gs) :
       IF singular
         THEN \E raised \in BOOLEAN :
                IF raised
                  THEN /\ pc' = "aborted"
                       /\ err' = "SingularMatrix"
                       /\ UNCHANGED <<warnings, u_x, u_y>>
                  ELSE /\ pc' = After("solve")
                       /\ warnings' = warnings \cup {"MatrixRankWarning"}
                       /\ u_x' = [r \in Rows |-> "nan"]
                       /\ u_y' = [r \in Rows |-> "nan"]
                       /\ err' = err
         ELSE /\ pc' = After("solve")
              /\ u_x' = [r \in Rows |-> Solution(Gs, d, r)]
              /\ u_y' = [r \in Rows |-> Solution(Gs, d, r + N)]
              /\ UNCHANGED <<err, warnings>>
  /\ UNCHANGED <<N, lamb, mu, body_force, idx, normals, G, Gp, log,
                 d_x, d_y, Gs, d, pert>>

Assembly ==
  \/ Derive \/ Zeros
  \/ PDE_xx \/ PDE_xy \/ PDE_yx \/ PDE_yy
  \/ Fix_xx \/ Fix_yy
  \/ Free_xx \/ Free_xy \/ Free_yx \/ Free_yy
  \/ Stack \/ RHS \/ Solve

Next == Generate \/ Assembly

NextAny == GenerateAny \/ Assembly

\* the script on the layouts the node generator delivers
Spec == Init /\ [][Next]_vars

\* the same, with a second run whose traction inputs are perturbed
SpecPerturb == InitPerturb /\ [][Next]_vars

\* the script on layouts without the partition and pairing guarantees
SpecAny == InitAny /\ [][NextAny]_vars

\* ------------------------------------------------------------ vocabulary
Generated == pc # "generate"

Interior == Range(idx["interior"])

Fixed == Range(idx["fixed"])

FreeNodes == Range(idx["free"])

Ghosts == Range(idx["free_ghosts"])

\* base groups pairwise disjoint and together covering [0, N)
ValidLayout ==
  /\ Interior \cup Fixed \cup FreeNodes \cup Ghosts = Rows
  /\ Len(idx["interior"]) + Len(idx["fixed"]) + Len(idx["free"])
       + Len(idx["free_ghosts"]) = N

\* the blocks exist
Allocated == pc \notin {"generate", "derive", "zeros"} /\ G # <<>>

\* all ten add_rows calls have returned
Assembled ==
  \/ pc \in {"stack", "rhs", "solve", "done"}
  \/ (pc = "aborted" /\ err = "SingularMatrix")

\* the right-hand side has been built
RhsBuilt == pc \in {"solve", "done"} \/ (pc = "aborted" /\ err = "SingularMatrix")

\* the linear solve was called
SolveAttempted == pc = "done" \/ (pc = "aborted" /\ err = "SingularMatrix")

Terminal == pc \in {"done", "aborted"}

\* the add_rows calls on block b that targeted row r
Calls(b, r) == {k \in DOMAIN log : log[k].blk = b /\ r \in Range(log[k].rows)}

Assignments(b, r) == Cardinality(Calls(b, r))

PhaseDone(b, phase) == \E k \in DOMAIN log : log[k].blk = b /\ log[k].phase = phase

PhaseRank(phase) ==
  CASE phase = "pde" -> 1 [] phase = "fixed" -> 2 [] phase = "free" -> 3

\* the PDE equation of block b evaluated at `node`
PdeRow(b, node) ==
  [at |-> node,
   terms |-> [t \in DOMAIN pde_diffs(b) |->
                <<pde_coeffs(b, lamb, mu)[t], pde_diffs(b)[t]>>]]

\* the zero-traction equation of block b at `node`, built from its normal
TractionRow(b, node) ==
  LET nx == normals[node][1]
      ny == normals[node][2]
      c == CASE b = "xx" -> <<nx * (lamb + 2 * mu), ny * mu>>
             [] b = "xy" -> <<nx * lamb, ny * mu>>
             [] b = "yx" -> <<nx * mu, ny * lamb>>
             [] b = "yy" -> <<ny * (lamb + 2 * mu), nx * mu>>
  IN  [at |-> node,
       terms |-> [t \in DOMAIN free_diffs(b) |-> <<c[t], free_diffs(b)[t]>>]]

RECURSIVE SumOver(_, _)
SumOver(f, S) ==
  IF S = {} THEN 0
  ELSE LET x == CHOOSE y \in S : TRUE IN f[x] + SumOver(f, S \ {x})

\* ------------------------------------------------------------------ claims

\* C1 as stated: after the three assembly phases on a valid layout every row
\* of each of the four blocks has received exactly one assignment.
C1_ExactlyOnePerRow ==
  (Assembled /\ ValidLayout) =>
    \A b \in Blocks : \A r \in Rows : Assignments(b, r) = 1

\* C1 amended: on a valid layout no row of any block ever receives two
\* assignments; after assembly every row of G_xx and G_yy has received exactly
\* one, and every row of G_xy and G_yx exactly one unless it is a fixed row,
\* which has received none.
C1_OnePerRowButCrossFixed ==
  (Allocated /\ ValidLayout) =>
    /\ \A b \in Blocks : \A r \in Rows : Assignments(b, r) <= 1
    /\ Assembled =>
         \A r \in Rows :
           /\ Assignments("xx", r) = 1
           /\ Assignments("yy", r) = 1
           /\ Assignments("xy", r) = (IF r \in Fixed THEN 0 ELSE 1)
           /\ Assignments("yx", r) = (IF r \in Fixed THEN 0 ELSE 1)

C1_Witness ==
  /\ Assembled /\ ValidLayout
  /\ Fixed # {} /\ FreeNodes # {}
  /\ \E r \in Fixed : Assignments("xy", r) = 0 /\ Assignments("xx", r) = 1

\* C2: for every fixed node i, after assembly row i of G_xx and of G_yy is
\* the identity row (1 in column i, 0 elsewhere), row i of G_xy and G_yx is
\* zero, and d_x[i] = d_y[i] = 0, also in the stacked system.
C2_DirichletRows ==
  Assembled =>
    \A i \in Fixed :
      /\ \A b \in {"xx", "yy"} :
           /\ IsPointRow(G[b][i])
           /\ \A c \in Rows : Entry(G[b][i], c) = (IF c = i THEN 1 ELSE 0)
      /\ \A b \in {"xy", "yx"} : G[b][i] = ZeroRow
      /\ RhsBuilt =>
           /\ d_x[i] = 0 /\ d_y[i] = 0
           /\ d[i] = 0 /\ d[i + N] = 0
           /\ Gs[i] = <<G["xx"][i], G["xy"][i]>>
           /\ Gs[i + N] = <<G["yx"][i], G["yy"][i]>>

C2_Witness ==
  /\ pc = "done" /\ Fixed # {} /\ FreeNodes # {}
  /\ \E i \in Fixed : Entry(G["xx"][i], i) = 1

\* C3: the right-hand side d has length 2N, is zero in every x entry, equals
\* body_force in exactly the y entries of interior+ghosts, is zero in the y
\* entries of fixed and free nodes, and its y entries sum to
\* body_force * |interior+ghosts|.
C3_RightHandSide ==
  RhsBuilt =>
    /\ DOMAIN d = 0..(2 * N - 1)
    /\ \A r \in Rows : d[r] = 0 /\ d_x[r] = 0
    /\ \A r \in Rows :
         /\ d[r + N] = d_y[r]
         /\ d_y[r] = (IF r \in Interior \cup Ghosts THEN body_force ELSE 0)
    /\ \A r \in Fixed \cup FreeNodes : d_y[r] = 0
    /\ SumOver(d_y, Rows) = body_force * Len(idx["interior+ghosts"])

C3_Witness ==
  /\ RhsBuilt /\ body_force # 0
  /\ Fixed # {} /\ FreeNodes # {}
  /\ SumOver(d_y, Rows) = body_force

\* C4: from the moment they are computed, interior+free, interior+ghosts and
\* interior+boundary equal, as sets, the unions of the current base groups,
\* lie inside [0, N) and list no index twice.
C4_DerivedGroups ==
  (Generated /\ pc # "derive") =>
    /\ Range(idx["interior+free"]) = Interior \cup FreeNodes
    /\ Range(idx["interior+ghosts"]) = Interior \cup Ghosts
    /\ Range(idx["interior+boundary"]) = Interior \cup FreeNodes \cup Fixed
    /\ \A g \in {"interior+free", "interior+ghosts", "interior+boundary"} :
         Range(idx[g]) \subseteq Rows /\ Distinct(idx[g])

C4_Witness ==
  /\ pc = "pde_xx"
  /\ Interior # {} /\ FreeNodes # {}
  /\ Range(idx["interior+ghosts"]) # Range(idx["interior+free"])

C6_PdeRouting ==
  Allocated =>
    \A b \in Blocks :
      /\ PhaseDone(b, "pde") =>
           /\ \A k \in DOMAIN idx["interior"] :
                G[b][idx["interior"][k]] = PdeRow(b, idx["interior"][k])
           /\ \A k \in DOMAIN idx["free"] :
                G[b][idx["free_ghosts"][k]] = PdeRow(b, idx["free"][k])
      /\ \A k \in DOMAIN idx["free"] :
           G[b][idx["free"][k]] =
             (IF PhaseDone(b, "free") THEN TractionRow(b, idx["free"][k])
                                      ELSE ZeroRow)
      /\ Assembled => PhaseDone(b, "pde") /\ PhaseDone(b, "free")

C6_Witness ==
  /\ pc = "done"
  /\ Interior # {} /\ FreeNodes # {}
  /\ \E k \in DOMAIN idx["free"] :
       G["yy"][idx["free_ghosts"][k]].at = idx["free"][k]

C10_ZeroDisplacement ==
  (Terminal /\ lamb = 0 /\ mu = 0 /\ body_force = 0 /\ idx["fixed"] # <<>>) =>
    /\ pc = "done"
    /\ \A r \in Rows : u_x[r] = "zero" /\ u_y[r] = "zero"

\* C10 amended: with lambda = mu = 0, body_force = 0 and a non-empty fixed
\* group the right-hand side is zero and every row outside fixed is zero in
\* all four blocks; the solve returns the zero displacement only when every
\* node is fixed, and otherwise meets a singular matrix and returns no zero
\* displacement (it fails, or warns and returns not-a-number).
C10_ZeroOnlyWhenAllFixed ==
  (Generated /\ lamb = 0 /\ mu = 0 /\ body_force = 0 /\ idx["fixed"] # <<>>) =>
    /\ RhsBuilt => \A r \in DOMAIN d : d[r] = 0
    /\ Assembled =>
         \A b \in Blocks : \A r \in Rows \ Fixed : IsZeroRow(G[b][r])
    /\ (Terminal /\ Fixed = Rows) =>
         /\ pc = "done" /\ warnings = {}
         /\ \A r \in Rows : u_x[r] = "zero" /\ u_y[r] = "zero"
    /\ (Terminal /\ Fixed # Rows) =>
         \/ pc = "aborted" /\ err = "SingularMatrix"
         \/ /\ pc = "done" /\ "MatrixRankWarning" \in warnings
            /\ \A r \in Rows : u_x[r] = "nan" /\ u_y[r] = "nan"

C10_Witness ==
  /\ pc = "done" /\ lamb = 0 /\ mu = 0 /\ body_force = 0
  /\ Fixed # {} /\ Interior # {}
  /\ \E r \in Rows : u_x[r] = "nan"

====
